---- MODULE Spec2Model ----
(***************************************************************************)
(* A model of overleaf_pull.py: build the Cookie header, fetch the CSRF    *)
(* token, download the project zip, extract it (flattening a single root   *)
(* directory) and print the destination.                                   *)
(*                                                                         *)
(* Text is a sequence of one-character strings, bytes are integers.        *)
(***************************************************************************)
EXTENDS Integers, Sequences, FiniteSets, TLC

VARIABLES
    cookieIn, cookieOut,                       \* _cookie_header: argument, result
    zipIn, flattenIn, fs0, fs, trees, errs, single_root,
                                               \* extract_zip: arguments, file tree, outcomes
    args, pc, base_url, headers, log, page, csrf, dl, zip_bytes, error, stdout
                                               \* main: position, session, requests, results

cookieVars == <<cookieIn, cookieOut>>
extractVars == <<zipIn, flattenIn, fs0, fs, trees, errs, single_root>>
runVars == <<args, pc, base_url, headers, log, page, csrf, dl, zip_bytes, error, stdout>>
vars == <<cookieVars, extractVars, runVars>>

\* Optional[...]: None, or Some(x) holding x.
None == <<>>

Some(x) == <<x>>

(***************************************************************************)
(* Bounds of the model.                                                    *)
(***************************************************************************)
MaxValueLen == 2      \* characters of a cookie value after the key
MaxEntries == 3       \* entries of an archive listing
MaxTokenLen == 2      \* characters of a token VALUE in the project page
MaxRuns == 2          \* consecutive extract_zip calls on one destination

(***************************************************************************)
(* Text helpers (Python str methods).                                      *)
(***************************************************************************)
Min(a, b) == IF a < b THEN a ELSE b

\* s[:n]
Take(s, n) == SubSeq(s, 1, Min(n, Len(s)))

\* s[n:]
Drop(s, n) == SubSeq(s, n + 1, Len(s))

\* s.startswith(p)
StartsWith(s, p) == Len(s) >= Len(p) /\ SubSeq(s, 1, Len(p)) = p

\* All sequences over S of length at most n.
SeqsUpTo(S, n) == UNION {[1..k -> S] : k \in 0..n}

\* str.isspace for one character (ASCII whitespace).
IsSpace(c) == c \in {" ", "\t", "\n", "\r"}

RECURSIVE LStrip(_)
LStrip(s) == IF s # <<>> /\ IsSpace(Head(s)) THEN LStrip(Tail(s)) ELSE s

RECURSIVE RStrip(_)
RStrip(s) ==
    IF s # <<>> /\ IsSpace(s[Len(s)]) THEN RStrip(SubSeq(s, 1, Len(s) - 1)) ELSE s

\* s.strip()
Strip(s) == RStrip(LStrip(s))

\* str.lower for one character (ASCII letters of the key).
LowerChar(c) ==
    CASE c = "O" -> "o" [] c = "V" -> "v" [] c = "E" -> "e" [] c = "R" -> "r"
      [] c = "L" -> "l" [] c = "A" -> "a" [] c = "F" -> "f" [] c = "S" -> "s"
      [] c = "I" -> "i" [] c = "D" -> "d" [] OTHER -> c

\* s.lower()
Lower(s) == [i \in 1..Len(s) |-> LowerChar(s[i])]

\* s.rstrip("/")
RECURSIVE RStripSlash(_)
RStripSlash(s) ==
    IF s # <<>> /\ s[Len(s)] = "/" THEN RStripSlash(SubSeq(s, 1, Len(s) - 1)) ELSE s

(***************************************************************************)
(* _normalize_base_url and _cookie_header.                                 *)
(***************************************************************************)
_normalize_base_url(url) == RStripSlash(url)

SidKey == <<"o", "v", "e", "r", "l", "e", "a", "f", ".", "s", "i", "d", "=">>

\* A plausible slip: the key test and the result use the raw argument.
CookieHeaderUnstripped(cookie) ==
    IF StartsWith(Lower(cookie), SidKey) THEN cookie ELSE SidKey \o Strip(cookie)

_cookie_header(cookie) ==
    IF StartsWith(Lower(Strip(cookie)), SidKey)
    THEN Strip(cookie)
    ELSE SidKey \o Strip(cookie)

(***************************************************************************)
(* Paths.  An archive name is text; a filesystem path is the sequence of   *)
(* its segments from the filesystem root (<<>> is "/").                    *)
(***************************************************************************)
HasSlash(s) == \E i \in 1..Len(s) : s[i] = "/"

FirstSlash(s) == CHOOSE i \in 1..Len(s) : s[i] = "/" /\ \A j \in 1..(i - 1) : s[j] # "/"

\* s.split("/")
RECURSIVE Split(_)
Split(s) ==
    IF ~HasSlash(s) THEN <<s>>
    ELSE <<SubSeq(s, 1, FirstSlash(s) - 1)>> \o Split(Drop(s, FirstSlash(s)))

\* [p for p in name.split("/") if p]
Parts(name) == SelectSeq(Split(name), LAMBDA p : p # <<>>)

Dot == <<".">>
DotDot == <<".", ".">>

Front(s) == SubSeq(s, 1, Len(s) - 1)

Last(s) == s[Len(s)]

\* PurePath.parent: the root is its own parent.
Parent(path) == IF path = <<>> THEN <<>> ELSE Front(path)

\* pathlib's parse of a path string: empty and "." segments are dropped, ".." is kept.
PathSegs(s) == SelectSeq(Split(s), LAMBDA p : p # <<>> /\ p # Dot)

\* output_dir / rel: an absolute right operand replaces the left one.
PathJoin(base, rel) ==
    IF rel # <<>> /\ Head(rel) = "/" THEN PathSegs(rel) ELSE base \o PathSegs(rel)

(***************************************************************************)
(* The file tree: a function from the paths that exist to directory or     *)
(* file nodes, and the system calls pathlib and zipfile make on it.        *)
(***************************************************************************)
DirNode == [kind |-> "dir", data |-> <<>>]

FileNode(d) == [kind |-> "file", data |-> d]

Put(f, k, v) == [x \in (DOMAIN f) \cup {k} |-> IF x = k THEN v ELSE f[x]]

Ok(f) == [fs |-> f, err |-> "ok"]

Raise(f, e) == [fs |-> f, err |-> e]

\* The kernel's walk of a path: every component passed through is an existing
\* directory, ".." steps to the parent.
RECURSIVE WalkFrom(_, _, _)
WalkFrom(f, cur, segs) ==
    IF cur \notin DOMAIN f THEN [err |-> "FileNotFoundError", path |-> cur]
    ELSE IF segs = <<>> THEN [err |-> "ok", path |-> cur]
    ELSE IF f[cur].kind # "dir" THEN [err |-> "NotADirectoryError", path |-> cur]
    ELSE IF Head(segs) = DotDot THEN WalkFrom(f, Parent(cur), Tail(segs))
    ELSE WalkFrom(f, cur \o <<Head(segs)>>, Tail(segs))

Stat(f, path) == WalkFrom(f, <<>>, path)

\* Path.is_dir / os.path.isdir
IsDir(f, path) == Stat(f, path).err = "ok" /\ f[Stat(f, path).path].kind = "dir"

\* Path.exists / os.path.exists
Exists(f, path) == Stat(f, path).err = "ok"

\* os.mkdir(path)
OsMkdir(f, path) ==
    IF path = <<>> THEN Raise(f, "FileExistsError")
    ELSE LET par == Stat(f, Front(path)) IN
        IF par.err # "ok" THEN Raise(f, par.err)
        ELSE IF f[par.path].kind # "dir" THEN Raise(f, "NotADirectoryError")
        ELSE IF Last(path) = DotDot THEN Raise(f, "FileExistsError")
        ELSE IF (par.path \o <<Last(path)>>) \in DOMAIN f THEN Raise(f, "FileExistsError")
        ELSE Ok(Put(f, par.path \o <<Last(path)>>, DirNode))

\* Path.mkdir(parents=True, exist_ok=True)
RECURSIVE PathMkdir(_, _)
PathMkdir(f, path) ==
    LET r == OsMkdir(f, path) IN
    IF r.err = "ok" THEN r
    ELSE IF r.err = "FileNotFoundError" THEN
        IF Parent(path) = path THEN r
        ELSE LET p == PathMkdir(f, Parent(path)) IN
            IF p.err # "ok" THEN p
            ELSE LET r2 == OsMkdir(p.fs, path) IN
                IF r2.err = "ok" \/ r2.err = "FileNotFoundError" THEN r2
                ELSE IF IsDir(p.fs, path) THEN Ok(p.fs) ELSE r2
    ELSE IF IsDir(f, path) THEN Ok(f) ELSE r

\* A plausible slip: the file is opened for appending, so a rewrite duplicates.
WriteBytesAppend(f, path, data) ==
    IF path = <<>> THEN Raise(f, "IsADirectoryError")
    ELSE LET par == Stat(f, Front(path)) IN
        IF par.err # "ok" THEN Raise(f, par.err)
        ELSE IF f[par.path].kind # "dir" THEN Raise(f, "NotADirectoryError")
        ELSE IF Last(path) = DotDot THEN Raise(f, "IsADirectoryError")
        ELSE LET t == par.path \o <<Last(path)>> IN
            IF t \in DOMAIN f /\ f[t].kind = "dir" THEN Raise(f, "IsADirectoryError")
            ELSE IF t \in DOMAIN f THEN Ok(Put(f, t, FileNode(f[t].data \o data)))
            ELSE Ok(Put(f, t, FileNode(data)))

\* Path.write_bytes(data) / open(path, "wb") followed by the write
WriteBytes(f, path, data) ==
    IF path = <<>> THEN Raise(f, "IsADirectoryError")
    ELSE LET par == Stat(f, Front(path)) IN
        IF par.err # "ok" THEN Raise(f, par.err)
        ELSE IF f[par.path].kind # "dir" THEN Raise(f, "NotADirectoryError")
        ELSE IF Last(path) = DotDot THEN Raise(f, "IsADirectoryError")
        ELSE LET t == par.path \o <<Last(path)>> IN
            IF t \in DOMAIN f /\ f[t].kind = "dir" THEN Raise(f, "IsADirectoryError")
            ELSE Ok(Put(f, t, FileNode(data)))

(***************************************************************************)
(* The archive: what zipfile.ZipFile parses from the bytes, either the     *)
(* listing (a sequence of entries) or BadZipFile.                          *)
(***************************************************************************)
BadZipFile == [bad |-> TRUE, infos |-> <<>>]

ZipOf(infos) == [bad |-> FALSE, infos |-> infos]

\* ZipInfo.is_dir
is_dir(info) == info.filename # <<>> /\ Last(info.filename) = "/"

\* ZipFile.namelist
namelist(infos) == [i \in 1..Len(infos) |-> infos[i].filename]

\* ZipFile.read(name): the last entry of that name
ZfRead(infos, name) ==
    infos[CHOOSE i \in 1..Len(infos) :
            infos[i].filename = name /\ \A j \in (i + 1)..Len(infos) : infos[j].filename # name].data

(***************************************************************************)
(* _single_root_dir                                                        *)
(***************************************************************************)
TopDirs(names) == {Parts(names[i])[1] : i \in {j \in 1..Len(names) : Parts(names[j]) # <<>>}}

_single_root_dir(names) ==
    IF Cardinality(TopDirs(names)) # 1 THEN None
    ELSE LET single == CHOOSE d \in TopDirs(names) : TRUE IN
        IF ~\E i \in 1..Len(names) : StartsWith(names[i], single \o <<"/">>) THEN None
        ELSE Some(single)

(***************************************************************************)
(* extract_zip                                                             *)
(***************************************************************************)
\* The loop of the flattened branch, from entry i on.
RECURSIVE FlattenFrom(_, _, _, _, _)
FlattenFrom(f, infos, i, output_dir, prefix) ==
    IF i > Len(infos) THEN Ok(f)
    ELSE LET info == infos[i]
             rel == RStripSlash(Drop(info.filename, Len(prefix)))
             dest == PathJoin(output_dir, rel)
         IN
        IF ~StartsWith(info.filename, prefix) THEN
            FlattenFrom(f, infos, i + 1, output_dir, prefix)
        ELSE IF rel = <<>> THEN
            FlattenFrom(f, infos, i + 1, output_dir, prefix)
        ELSE IF is_dir(info) THEN
            LET m == PathMkdir(f, dest) IN
            IF m.err # "ok" THEN m
            ELSE FlattenFrom(m.fs, infos, i + 1, output_dir, prefix)
        ELSE
            LET m == PathMkdir(f, Parent(dest)) IN
            IF m.err # "ok" THEN m
            ELSE LET w == WriteBytes(m.fs, dest, ZfRead(infos, info.filename)) IN
                IF w.err # "ok" THEN w
                ELSE FlattenFrom(w.fs, infos, i + 1, output_dir, prefix)

\* ZipFile._extract_member's target: empty, "." and ".." parts of the name are removed.
ArcParts(name) == SelectSeq(Split(name), LAMBDA p : p # <<>> /\ p # Dot /\ p # DotDot)

\* ZipFile.extractall(output_dir), from entry i on.
RECURSIVE ExtractAllFrom(_, _, _, _)
ExtractAllFrom(f, infos, i, output_dir) ==
    IF i > Len(infos) THEN Ok(f)
    ELSE LET info == infos[i]
             target == output_dir \o ArcParts(info.filename)
             up == IF Exists(f, Parent(target)) THEN Ok(f) ELSE PathMkdir(f, Parent(target))
         IN
        IF up.err # "ok" THEN up
        ELSE IF is_dir(info) THEN
            LET m == IF IsDir(up.fs, target) THEN Ok(up.fs) ELSE OsMkdir(up.fs, target) IN
            IF m.err # "ok" THEN m
            ELSE ExtractAllFrom(m.fs, infos, i + 1, output_dir)
        ELSE
            LET w == WriteBytes(up.fs, target, info.data) IN
            IF w.err # "ok" THEN w
            ELSE ExtractAllFrom(w.fs, infos, i + 1, output_dir)

\* The root the call flattens, if any.
SingleRootOf(zip, flatten_single_root) ==
    IF zip.bad \/ ~flatten_single_root THEN None
    ELSE _single_root_dir(namelist(zip.infos))

extract_zip(f, zip, output_dir, flatten_single_root) ==
    LET made == PathMkdir(f, output_dir) IN
    IF made.err # "ok" THEN made
    ELSE IF zip.bad THEN Raise(made.fs, "BadZipFile")
    ELSE LET single == SingleRootOf(zip, flatten_single_root) IN
        IF single # None THEN
            FlattenFrom(made.fs, zip.infos, 1, output_dir, single[1] \o <<"/">>)
        ELSE ExtractAllFrom(made.fs, zip.infos, 1, output_dir)

(***************************************************************************)
(* Inputs.                                                                 *)
(***************************************************************************)
UpperKey == <<"O", "V", "E", "R", "L", "E", "A", "F", ".", "S", "I", "D", "=">>

CookieInputs ==
    {lead \o key \o value \o trail :
        lead \in {<<>>, <<" ">>},
        key \in {<<>>, SidKey, UpperKey, Front(SidKey)},
        value \in SeqsUpTo({"s", " ", "="}, MaxValueLen),
        trail \in {<<>>, <<" ">>, <<"\n">>}}

Entry(name, data) == [filename |-> name, data |-> data]

\* Archive entries: the root marker, files and directories under the root p, a
\* file named like the root, a top-level file, and names whose remainder after
\* "p/" is absolute or climbs out.
EntryPool ==
    { Entry(<<"p", "/">>, <<>>),
      Entry(<<"p", "/", "a">>, <<"X">>),
      Entry(<<"p", "/", "a">>, <<"Y">>),
      Entry(<<"p", "/", "s", "/">>, <<>>),
      Entry(<<"p", "/", "s", "/", "b">>, <<"X">>),
      Entry(<<"p", "/", "s">>, <<"X">>),
      Entry(<<"p">>, <<"X">>),
      Entry(<<"a">>, <<"X">>),
      Entry(<<"p", "/", "/", "e">>, <<"X">>),
      Entry(<<"p", "/", ".", ".", "/", "e">>, <<"X">>) }

Archives == {BadZipFile} \cup {ZipOf(l) : l \in SeqsUpTo(EntryPool, MaxEntries)}

\* The working directory /w and the resolved output directory /w/D.
Cwd == << <<"w">> >>

OutDir == << <<"w">>, <<"D">> >>

BaseTree == [x \in {<<>>, Cwd} |-> DirNode]

InitialTrees ==
    { BaseTree,
      Put(Put(BaseTree, OutDir, DirNode), OutDir \o << <<"a">> >>, FileNode(<<"o", "l", "d">>)),
      Put(Put(BaseTree, OutDir, DirNode), OutDir \o << <<"a">> >>, DirNode) }

(***************************************************************************)
(* _cookie_header on every input.                                          *)
(***************************************************************************)
CookieIdle == cookieIn = <<>> /\ cookieOut = None

ExtractIdle ==
    /\ zipIn = BadZipFile /\ flattenIn = TRUE /\ fs0 = BaseTree /\ fs = BaseTree
    /\ trees = <<>> /\ errs = <<>> /\ single_root = None

RunIdle ==
    /\ args = None /\ pc = "idle" /\ base_url = <<>> /\ headers = <<>> /\ log = <<>> /\ page = None
    /\ csrf = None /\ dl = None /\ zip_bytes = None /\ error = None /\ stdout = <<>>

CookieInit == cookieIn \in CookieInputs /\ cookieOut = None /\ ExtractIdle /\ RunIdle

CookieHeaderCall ==
    /\ cookieOut = None
    /\ cookieOut' = Some(_cookie_header(cookieIn))
    /\ UNCHANGED <<cookieIn, extractVars, runVars>>

CookieNext == CookieHeaderCall

SpecCookie == CookieInit /\ [][CookieNext]_vars

(***************************************************************************)
(* extract_zip called MaxRuns times on one destination with one archive.   *)
(***************************************************************************)
ExtractInit ==
    /\ zipIn \in Archives
    /\ flattenIn \in BOOLEAN
    /\ fs0 \in InitialTrees
    /\ fs = fs0
    /\ trees = <<>>
    /\ errs = <<>>
    /\ single_root = None
    /\ CookieIdle
    /\ RunIdle

ExtractZipCall ==
    /\ Len(errs) < MaxRuns
    /\ LET r == extract_zip(fs, zipIn, OutDir, flattenIn) IN
        /\ fs' = r.fs
        /\ trees' = Append(trees, r.fs)
        /\ errs' = Append(errs, r.err)
        /\ single_root' = IF PathMkdir(fs, OutDir).err = "ok"
                          THEN SingleRootOf(zipIn, flattenIn) ELSE None
    /\ UNCHANGED <<zipIn, flattenIn, fs0, cookieVars, runVars>>

ExtractNext == ExtractZipCall

SpecExtract == ExtractInit /\ [][ExtractNext]_vars

(***************************************************************************)
(* Claims about _single_root_dir and extract_zip, under SpecExtract.       *)
(***************************************************************************)
Called == errs # <<>>

Flattening == Called /\ ~zipIn.bad /\ flattenIn /\ PathMkdir(fs0, OutDir).err = "ok"

Names == namelist(zipIn.infos)

\* The path text after the root prefix "R/".
Rest(name) == Drop(name, Len(single_root[1]) + 1)

UnderRoot(name) == StartsWith(name, single_root[1] \o <<"/">>)

\* C1 (as claimed): the root S is returned exactly when S is the only first
\* segment of the non-empty entry paths and some entry path is strictly longer
\* than "S/"; otherwise no root is returned.
C1_RootIffContent ==
    Flattening =>
        single_root =
            IF /\ Cardinality(TopDirs(Names)) = 1
               /\ \E i \in 1..Len(Names) : \E S \in TopDirs(Names) :
                     StartsWith(Names[i], S \o <<"/">>) /\ Len(Names[i]) > Len(S) + 1
            THEN Some(CHOOSE S \in TopDirs(Names) : TRUE)
            ELSE None

\* Where an entry of the flattened archive is claimed to land: D/rest, as the
\* system resolves it from the destination.
ClaimedTarget(name) == Stat(fs, OutDir \o PathSegs(Rest(name)))

\* C7 (as claimed): after a flattened extraction that completed, every entry
\* R/rest with a non-empty rest is at D/rest: a directory for a directory
\* entry, a file holding the payload for a file entry.
C7_FlattenedAtDest ==
    (Flattening /\ single_root # None /\ errs[1] = "ok") =>
        \A i \in 1..Len(zipIn.infos) :
            LET info == zipIn.infos[i] IN
            (UnderRoot(info.filename) /\ Rest(info.filename) # <<>>) =>
                /\ ClaimedTarget(info.filename).err = "ok"
                /\ LET node == fs[ClaimedTarget(info.filename).path] IN
                    IF is_dir(info) THEN node.kind = "dir"
                    ELSE node = FileNode(ZfRead(zipIn.infos, info.filename))

\* C8 (as claimed): two calls in a row with the same archive and destination
\* both succeed and the second leaves the tree of the first.
C8_TwiceSucceeds ==
    Len(errs) >= 2 => errs[1] = "ok" /\ errs[2] = "ok" /\ trees[2] = trees[1]

\* C8 (amended): every further call with the same archive and destination
\* ends as the first did (success, or the same error) and leaves exactly the
\* tree the first left.
C8_Idempotent ==
    \A k \in 2..Len(errs) : errs[k] = errs[1] /\ trees[k] = trees[1]

\* C8 witness: a second successful flattened call on a destination whose file
\* a held other content, which the first call overwrote.
C8_Witness ==
    /\ Len(errs) >= 2 /\ errs[2] = "ok" /\ single_root # None
    /\ (OutDir \o << <<"a">> >>) \in DOMAIN fs0
    /\ fs0[OutDir \o << <<"a">> >>] = FileNode(<<"o", "l", "d">>)
    /\ fs[OutDir \o << <<"a">> >>] = FileNode(<<"X">>)
    /\ (OutDir \o << <<"s">>, <<"b">> >>) \in DOMAIN fs

IsPrefix(p, q) == Len(p) <= Len(q) /\ SubSeq(q, 1, Len(p)) = p

\* C9 (as claimed): in flattened mode every path created or overwritten lies
\* inside the destination directory.
C9_Contained ==
    (Flattening /\ single_root # None) =>
        \A x \in DOMAIN fs :
            (x \notin DOMAIN fs0 \/ fs[x] # fs0[x]) => IsPrefix(OutDir, x)

\* C10 (as claimed): when a root R is returned, every non-empty entry path
\* starts with "R/", so no entry but the root marker is skipped.
C10_NothingSkipped ==
    (Flattening /\ single_root # None) =>
        \A i \in 1..Len(Names) : Names[i] # <<>> => UnderRoot(Names[i])

(***************************************************************************)
(* The two requests: raise_for_status, get_csrf_token, download_zip.       *)
(***************************************************************************)
\* A plausible slip: only client errors raise.
RaiseForStatusClientOnly(status) == 400 <= status /\ status < 500

\* Response.raise_for_status raises HTTPError for 4xx and 5xx.
RaiseForStatus(status) ==
    (400 <= status /\ status < 500) \/ (500 <= status /\ status < 600)

Quote == "\""

\* The text the pattern starts with, up to the opening quote of content.
MarkerHead ==
    <<"<", "m", "e", "t", "a", " ", "n", "a", "m", "e", "=", "\"", "o", "l", "-", "c",
      "s", "r", "f", "T", "o", "k", "e", "n", "\"", " ", "c", "o", "n", "t", "e", "n",
      "t", "=", "\"">>

HasQuote(s) == \E i \in 1..Len(s) : s[i] = Quote

FirstQuote(s) == CHOOSE i \in 1..Len(s) : s[i] = Quote /\ \A j \in 1..(i - 1) : s[j] # Quote

\* re.search(r'<meta name="ol-csrfToken" content="([^"]*)"', text), scanning
\* from position i: the leftmost position where the pattern matches.
RECURSIVE SearchFrom(_, _)
SearchFrom(text, i) ==
    IF i + Len(MarkerHead) - 1 > Len(text) THEN None
    ELSE LET after == Drop(text, i + Len(MarkerHead) - 1) IN
        IF SubSeq(text, i, i + Len(MarkerHead) - 1) = MarkerHead /\ HasQuote(after)
        THEN Some(SubSeq(after, 1, FirstQuote(after) - 1))
        ELSE SearchFrom(text, i + 1)

\* get_csrf_token on a response that passed the status check: match.group(1) or None.
CsrfOf(text) == SearchFrom(text, 1)

\* A plausible slip: the header is attached whenever a token was found.
AttachTokenIfNotNone(hdrs, token) ==
    IF token # None THEN [hdrs EXCEPT !.token = token] ELSE hdrs

\* main: if csrf: session.headers["X-CSRF-Token"] = csrf
AttachToken(hdrs, token) ==
    IF token # None /\ token[1] # <<>> THEN [hdrs EXCEPT !.token = token] ELSE hdrs

PK == <<80, 75>>

PreviewLen == 200

\* bytes.decode("utf-8", errors="replace") to code points, for bytes outside
\* 224..244 (one- and two-byte sequences; every other byte is invalid and is
\* replaced by U+FFFD, as is a lead byte without its continuation byte).
\* b[i] starts a two-byte sequence.
IsLead2(b, i) ==
    /\ 194 <= b[i] /\ b[i] <= 223
    /\ i < Len(b) /\ 128 <= b[i + 1] /\ b[i + 1] <= 191

\* The decoder's output for b[lo..hi], where the decoder starts a character at
\* lo and ends one at hi; the range is halved between two characters.
RECURSIVE DecodeRange(_, _, _)
DecodeRange(b, lo, hi) ==
    IF lo > hi THEN <<>>
    ELSE IF lo = hi THEN <<IF b[lo] < 128 THEN b[lo] ELSE 65533>>
    ELSE IF hi = lo + 1 /\ IsLead2(b, lo) THEN <<(b[lo] - 192) * 64 + (b[hi] - 128)>>
    ELSE LET m == (lo + hi) \div 2
             cut == IF IsLead2(b, m) THEN m - 1 ELSE m
         IN DecodeRange(b, lo, cut) \o DecodeRange(b, cut + 1, hi)

Decode(b) == DecodeRange(b, 1, Len(b))

\* repr of a str of printable code points without quote or backslash.
Repr(s) == <<39>> \o s \o <<39>>

\* A plausible slip: the preview is not cut.
PreviewOfAll(data) == Decode(data)

\* data[:200].decode("utf-8", errors="replace")
Preview(data) == Decode(Take(data, PreviewLen))

\* The RuntimeError of download_zip: its message holds ct and repr(preview).
NotZipError(resp) ==
    [type |-> "RuntimeError", at |-> "download",
     ct |-> IF resp.ct = None THEN "" ELSE resp.ct[1],
     preview |-> Repr(Preview(resp.content))]

HttpError(at, status) == [type |-> "HTTPError", at |-> at, ct |-> "", preview |-> <<status>>]

ExtractError(e) == [type |-> e, at |-> "extract", ct |-> "", preview |-> <<>>]

ProjectPath ==
    <<"/", "p", "r", "o", "j", "e", "c", "t", "/">>

DownloadPath ==
    <<"/", "d", "o", "w", "n", "l", "o", "a", "d", "/", "z", "i", "p">>

ProjectId == <<"7">>

\* f"{base_url}/project/{project_id}"
PageUrl(base, id) == base \o ProjectPath \o id

\* f"{base_url}/project/{project_id}/download/zip"
ZipUrl(base, id) == base \o ProjectPath \o id \o DownloadPath

(***************************************************************************)
(* Inputs of a run: arguments and server responses.                        *)
(***************************************************************************)
RunArgs ==
    { [cookie |-> <<"s">>, base_url |-> <<"h">>],
      [cookie |-> SidKey \o <<"s", " ">>, base_url |-> <<"h", "/", "/">>] }

Statuses == {199, 200, 299, 304, 399, 400, 499, 500, 599, 600}

TokenValues == SeqsUpTo({"t"}, MaxTokenLen) \cup {<<"t", ">", "t">>}

WrongOrderTag ==
    <<"<", "m", "e", "t", "a", " ", "c", "o", "n", "t", "e", "n", "t", "=", "\"", "t",
      "\"", " ", "n", "a", "m", "e", "=", "\"", "o", "l", "-", "c", "s", "r", "f", "T",
      "o", "k", "e", "n", "\"", ">">>

PageBodies ==
    {<<>>, <<"x">>, WrongOrderTag}
    \cup {pre \o MarkerHead \o v \o post :
            pre \in {<<>>, <<"x">>},
            v \in TokenValues,
            post \in {<<Quote, ">">>, <<Quote, " ", "/", ">">>, <<>>}}
    \cup {MarkerHead \o <<"t", Quote, ">">> \o MarkerHead \o <<Quote, ">">>}

PageResponses == [status : Statuses, body : PageBodies]

Fill(n, b) == [i \in 1..n |-> b]

\* Bodies that are not archives: short ones, pages of about PreviewLen bytes,
\* one whose two-byte character straddles the cut, one with an invalid byte.
NonZipContents ==
    { <<>>, <<80>>, <<75, 80>>, <<60, 255, 195, 169>>,
      Fill(PreviewLen, 60), Fill(PreviewLen + 1, 60),
      Fill(PreviewLen - 1, 60) \o <<195, 169, 60>> }

ZipContent == PK \o <<3, 4>>

RunArchives ==
    { BadZipFile,
      ZipOf(<<Entry(<<"p", "/", "a">>, <<"X">>), Entry(<<"p", "/", "s", "/">>, <<>>)>>),
      ZipOf(<<Entry(<<"a">>, <<"X">>)>>) }

ContentTypes == {None, Some("text/html")}

ZipResponses ==
    [status : Statuses, ct : ContentTypes, content : NonZipContents, zip : {BadZipFile}]
    \cup [status : Statuses, ct : ContentTypes, content : {ZipContent}, zip : RunArchives]

(***************************************************************************)
(* main: one run, a step per call that main makes.                         *)
(***************************************************************************)
Request(op, url, hdrs) == [op |-> op, url |-> url, cookie |-> hdrs.cookie, token |-> hdrs.token]

Step(op) == [op |-> op, url |-> <<>>, cookie |-> <<>>, token |-> None]

Init ==
    /\ args \in RunArgs
    /\ pc = "start"
    /\ base_url = <<>>
    /\ headers = [cookie |-> <<>>, token |-> None]
    /\ log = <<>>
    /\ page = None
    /\ csrf = None
    /\ dl = None
    /\ zip_bytes = None
    /\ error = None
    /\ stdout = <<>>
    /\ zipIn = BadZipFile /\ flattenIn = TRUE /\ fs0 = BaseTree /\ fs = BaseTree
    /\ trees = <<>> /\ errs = <<>> /\ single_root = None
    /\ CookieIdle

\* base_url = _normalize_base_url(...); session.headers["Cookie"] = _cookie_header(...)
Main_Session ==
    /\ pc = "start"
    /\ base_url' = _normalize_base_url(args.base_url)
    /\ headers' = [cookie |-> _cookie_header(args.cookie), token |-> None]
    /\ pc' = "token"
    /\ UNCHANGED <<args, log, page, csrf, dl, zip_bytes, error, stdout, cookieVars, extractVars>>

\* csrf = get_csrf_token(...); if csrf: session.headers["X-CSRF-Token"] = csrf
Main_GetCsrfToken ==
    /\ pc = "token"
    /\ \E resp \in PageResponses :
        /\ log' = Append(log, Request("token", PageUrl(base_url, ProjectId), headers))
        /\ page' = Some(resp)
        /\ IF RaiseForStatus(resp.status)
           THEN /\ error' = Some(HttpError("token", resp.status))
                /\ pc' = "failed"
                /\ UNCHANGED <<csrf, headers>>
           ELSE /\ csrf' = CsrfOf(resp.body)
                /\ headers' = AttachToken(headers, CsrfOf(resp.body))
                /\ pc' = "download"
                /\ UNCHANGED error
    /\ UNCHANGED <<args, base_url, dl, zip_bytes, stdout, cookieVars, extractVars>>

\* A plausible slip: the body is returned without the "PK" test.
Main_DownloadZipUnchecked ==
    /\ pc = "download"
    /\ \E resp \in ZipResponses :
        /\ log' = Append(log, Request("archive", ZipUrl(base_url, ProjectId), headers))
        /\ dl' = Some(resp)
        /\ IF RaiseForStatus(resp.status)
           THEN /\ error' = Some(HttpError("download", resp.status))
                /\ pc' = "failed"
                /\ UNCHANGED zip_bytes
           ELSE /\ zip_bytes' = Some(resp.content)
                /\ pc' = "extract"
                /\ UNCHANGED error
    /\ UNCHANGED <<args, base_url, headers, page, csrf, stdout, cookieVars, extractVars>>

\* zip_bytes = download_zip(...)
Main_DownloadZip ==
    /\ pc = "download"
    /\ \E resp \in ZipResponses :
        /\ log' = Append(log, Request("archive", ZipUrl(base_url, ProjectId), headers))
        /\ dl' = Some(resp)
        /\ IF RaiseForStatus(resp.status)
           THEN /\ error' = Some(HttpError("download", resp.status))
                /\ pc' = "failed"
                /\ UNCHANGED zip_bytes
           ELSE IF ~StartsWith(resp.content, PK)
           THEN /\ error' = Some(NotZipError(resp))
                /\ pc' = "failed"
                /\ UNCHANGED zip_bytes
           ELSE /\ zip_bytes' = Some(resp.content)
                /\ pc' = "extract"
                /\ UNCHANGED error
    /\ UNCHANGED <<args, base_url, headers, page, csrf, stdout, cookieVars, extractVars>>

\* extract_zip(zip_bytes, args.output_dir)
Main_ExtractZip ==
    /\ pc = "extract"
    /\ LET r == extract_zip(fs, dl[1].zip, OutDir, TRUE) IN
        /\ log' = Append(log, Step("extract"))
        /\ fs' = r.fs
        /\ IF r.err = "ok"
           THEN pc' = "print" /\ UNCHANGED error
           ELSE pc' = "failed" /\ error' = Some(ExtractError(r.err))
    /\ UNCHANGED <<args, base_url, headers, page, csrf, dl, zip_bytes, stdout, cookieVars,
                   zipIn, flattenIn, fs0, trees, errs, single_root>>

\* print(f"Extracted to {args.output_dir.resolve()}")
Main_Print ==
    /\ pc = "print"
    /\ log' = Append(log, Step("print"))
    /\ stdout' = Append(stdout, [text |-> "Extracted to ", path |-> OutDir])
    /\ pc' = "done"
    /\ UNCHANGED <<args, base_url, headers, page, csrf, dl, zip_bytes, error, cookieVars,
                   extractVars>>

Next ==
    \/ Main_Session
    \/ Main_GetCsrfToken
    \/ Main_DownloadZip
    \/ Main_ExtractZip
    \/ Main_Print

Spec == Init /\ [][Next]_vars

(***************************************************************************)
(* Claim about _cookie_header, under SpecCookie.                           *)
(***************************************************************************)
AllSpace(s) == \A i \in 1..Len(s) : IsSpace(s[i])

\* t is c without its surrounding whitespace.
IsTrimOf(t, c) ==
    /\ \E a \in 0..Len(c) : \E b \in a..Len(c) :
          t = SubSeq(c, a + 1, b) /\ AllSpace(SubSeq(c, 1, a)) /\ AllSpace(Drop(c, b))
    /\ (t # <<>> => ~IsSpace(t[1]) /\ ~IsSpace(t[Len(t)]))

KeyedNoCase(s) == Len(s) >= Len(SidKey) /\ Lower(SubSeq(s, 1, Len(SidKey))) = SidKey

\* C2 (as claimed): the result is C verbatim, surrounding whitespace included,
\* when C itself starts case-insensitively with the key, and otherwise the key
\* followed by C trimmed.
C2_VerbatimIfKeyed ==
    cookieOut # None =>
        \E a \in 0..Len(cookieIn) : \E b \in a..Len(cookieIn) :
            LET t == SubSeq(cookieIn, a + 1, b) IN
            /\ IsTrimOf(t, cookieIn)
            /\ cookieOut[1] = IF KeyedNoCase(cookieIn) THEN cookieIn ELSE SidKey \o t

\* C2 (amended): the result is C trimmed of surrounding whitespace when the
\* trimmed C starts case-insensitively with the key, and otherwise the key
\* followed by the trimmed C.
C2_TrimmedIfKeyed ==
    cookieOut # None =>
        \E a \in 0..Len(cookieIn) : \E b \in a..Len(cookieIn) :
            LET t == SubSeq(cookieIn, a + 1, b) IN
            /\ IsTrimOf(t, cookieIn)
            /\ cookieOut[1] = IF KeyedNoCase(t) THEN t ELSE SidKey \o t

\* C2 witness: an input carrying the key in upper case between whitespace came
\* back trimmed, its case kept.
C2_Witness ==
    /\ cookieOut # None
    /\ cookieIn = <<" ">> \o UpperKey \o <<"s", " ">>
    /\ cookieOut[1] = UpperKey \o <<"s">>

(***************************************************************************)
(* Claims about the run, under Spec.                                       *)
(***************************************************************************)
ErrorStatus(st) == 400 <= st /\ st <= 599

Is2xx(st) == 200 <= st /\ st <= 299

BeginsPK(b) == Len(b) >= 2 /\ b[1] = 80 /\ b[2] = 75

FailedAt(at, type) == error # None /\ error[1].at = at /\ error[1].type = type /\ pc = "failed"

\* C3 (as claimed): both requests fail for every status that is not 2xx,
\* returning no token and no bytes.
C3_Non2xxFails ==
    /\ (page # None /\ ~Is2xx(page[1].status)) => (FailedAt("token", "HTTPError") /\ csrf = None)
    /\ (dl # None /\ ~Is2xx(dl[1].status)) =>
          (FailedAt("download", "HTTPError") /\ zip_bytes = None)

\* C3 (amended): both requests fail with an HTTP error exactly for the 4xx and
\* 5xx statuses (400..599), returning no token and no bytes; any other status
\* passes the status check.
C3_ErrorStatusFails ==
    /\ page # None =>
          /\ ErrorStatus(page[1].status) <=> (error # None /\ error[1].at = "token")
          /\ ErrorStatus(page[1].status) =>
                (FailedAt("token", "HTTPError") /\ csrf = None /\ dl = None)
    /\ dl # None =>
          /\ ErrorStatus(dl[1].status) <=>
                (error # None /\ error[1].at = "download" /\ error[1].type = "HTTPError")
          /\ ErrorStatus(dl[1].status) => (pc = "failed" /\ zip_bytes = None)

\* C3 witness: the page came with 304 and passed, the download came with 500
\* and failed.
C3_Witness ==
    /\ page # None /\ page[1].status = 304
    /\ dl # None /\ dl[1].status = 500
    /\ FailedAt("download", "HTTPError")

\* C4: a download whose status was accepted and whose body does not begin
\* with "PK" fails with an error holding the Content-Type and a preview of at
\* most the first 200 bytes, and returns nothing; a body that begins with
\* "PK" is returned as it is.
C4_ArchiveValidated ==
    (dl # None /\ ~ErrorStatus(dl[1].status)) =>
        LET B == dl[1].content IN
        IF BeginsPK(B) THEN zip_bytes = Some(B) /\ ~FailedAt("download", "RuntimeError")
        ELSE /\ zip_bytes = None
             /\ FailedAt("download", "RuntimeError")
             /\ error[1].ct = (IF dl[1].ct = None THEN "" ELSE dl[1].ct[1])
             /\ \E k \in 0..200 :
                   /\ k = Len(B) \/ (k = 200 /\ Len(B) > 200)
                   /\ error[1].preview = Repr(Decode(SubSeq(B, 1, k)))

\* C4 witness: a page of more than 200 bytes with a Content-Type was refused.
C4_Witness ==
    /\ dl # None /\ Len(dl[1].content) > 200 /\ dl[1].ct = Some("text/html")
    /\ dl[1].status = 200
    /\ FailedAt("download", "RuntimeError")
    /\ Len(error[1].preview) = 202

Order == <<"token", "archive", "extract", "print">>

\* The step at which an error of the given place is raised.
StepOf(at) == CASE at = "token" -> 1 [] at = "download" -> 2 [] at = "extract" -> 3

\* C5: the steps run in the order token GET, archive GET, extraction, print,
\* each at most once; a failed step is the last one, so no archive GET follows
\* a failed token GET, nothing is written after a failed or non-archive
\* download, and the completion line is printed only after every step succeeded.
C5_Sequenced ==
    /\ Len(log) <= Len(Order)
    /\ \A i \in 1..Len(log) : log[i].op = Order[i]
    /\ (page # None /\ ErrorStatus(page[1].status)) => Len(log) = 1
    /\ (dl = None \/ ErrorStatus(dl[1].status) \/ ~BeginsPK(dl[1].content)) =>
          (Len(log) <= 2 /\ fs = fs0)
    /\ pc = "failed" <=> error # None
    /\ error # None => (Len(log) = StepOf(error[1].at) /\ stdout = <<>>)
    /\ stdout # <<>> =>
          /\ stdout = <<[text |-> "Extracted to ", path |-> OutDir]>>
          /\ Len(log) = 4
          /\ ~ErrorStatus(page[1].status) /\ ~ErrorStatus(dl[1].status)
          /\ BeginsPK(dl[1].content) /\ ~dl[1].zip.bad
          /\ IsDir(fs, OutDir)

\* C5 witness: the download returned a page with status 200, the run stopped
\* there with the destination untouched and nothing printed.
C5_Witness ==
    /\ pc = "failed" /\ Len(log) = 2 /\ dl # None /\ dl[1].status = 200
    /\ ~BeginsPK(dl[1].content) /\ stdout = <<>> /\ OutDir \notin DOMAIN fs
    /\ headers.token # None

HeadAt(body, i) ==
    i + Len(MarkerHead) - 1 <= Len(body) /\ SubSeq(body, i, i + Len(MarkerHead) - 1) = MarkerHead

\* The values v for which body holds, at i, the marker head, v without a
\* double quote, and then the closing text.
ValuesAt(body, i, closing) ==
    {v \in {SubSeq(body, i + Len(MarkerHead), j) : j \in (i + Len(MarkerHead) - 1)..Len(body)} :
        /\ HeadAt(body, i)
        /\ \A k \in 1..Len(v) : v[k] # Quote
        /\ StartsWith(Drop(body, i + Len(MarkerHead) + Len(v) - 1), closing)}

\* The token header of the archive GET.
SentToken == log[2].token

\* C6 (as claimed): the archive GET carries X-CSRF-Token = VALUE exactly when
\* the page holds <meta name="ol-csrfToken" content="VALUE">, the empty VALUE
\* included, and carries no such header when the page holds no marker.
C6_TokenIffMarker ==
    Len(log) >= 2 =>
        LET body == page[1].body
            full == UNION {ValuesAt(body, i, <<Quote, ">">>) : i \in 1..Len(body)}
        IN /\ SentToken # None => SentToken[1] \in full
           /\ full # {} => SentToken # None

\* C6 (amended): the archive GET carries X-CSRF-Token = VALUE exactly when the
\* first <meta name="ol-csrfToken" content="VALUE" of the page (a closing ">"
\* is not needed) has a non-empty VALUE; with no such text, or an empty VALUE,
\* it carries no such header.
C6_TokenOfFirstMarker ==
    Len(log) >= 2 =>
        LET body == page[1].body
            occ == {i \in 1..Len(body) : ValuesAt(body, i, <<Quote>>) # {}}
        IN IF occ = {} THEN SentToken = None
           ELSE LET first == CHOOSE i \in occ : \A j \in occ : i <= j
                    v == CHOOSE x \in ValuesAt(body, first, <<Quote>>) : TRUE
                IN SentToken = (IF v = <<>> THEN None ELSE Some(v))

\* C6 witness: the page held the marker without a closing ">" and the archive
\* GET carried its VALUE.
C6_Witness ==
    /\ Len(log) >= 2
    /\ page[1].body = <<"x">> \o MarkerHead \o <<"t", ">", "t", Quote, " ", "/", ">">>
    /\ SentToken = Some(<<"t", ">", "t">>)

====
